---- MODULE Spec2Model ----
(***************************************************************************)
(* A model of aten/src/ATen/native/vulkan/VulkanOps.cpp: the operator      *)
(* entry points of the Vulkan backend.  Every entry point is an operator   *)
(* that returns the sequence of device calls ("events") the C++ function   *)
(* makes, in program order, for given arguments; an assertion failure      *)
(* (TORCH_INTERNAL_ASSERT throws) ends the sequence with an "assert"       *)
(* event and nothing of the function runs after it.  The state of the      *)
(* model is the last call made, the events it produced and the tensors     *)
(* the buffer-copy operators (reshape_copy, cat) work on.                  *)
(***************************************************************************)
EXTENDS Integers, Sequences, FiniteSets, TLC

VARIABLES
  call,   \* the last entry point called, with its arguments
  trace,  \* the device calls it made, in program order
  heap    \* the tensors of the buffer-copy operators, by allocation order

vars == <<call, trace, heap>>

(***************************************************************************)
(* Bounds of the model.                                                    *)
(***************************************************************************)
\* spatial extents, batch and channel counts of the pooling / matmul calls
MaxExt == 2
\* how many dimensions of an elementwise operand may differ from 1
MaxBig == 1
\* channel counts (C, OC) and group counts of the convolution calls
MaxChan == 5
\* kernel extents (KH, KW) of the weight prepacking calls
MaxK == 2

(***************************************************************************)
(* Program constants.                                                      *)
(***************************************************************************)
\* "Vulkan add is implemented for dim <= 4"
MaxAddDim == 4

Ext == 1..MaxExt

\* ranks one above the supported maximum are exercised too
MaxRank == MaxAddDim + 1

Max(a, b) == IF a >= b THEN a ELSE b

SetMax(S) == CHOOSE x \in S : \A y \in S : y <= x

RECURSIVE SeqProd(_)
SeqProd(s) == IF s = <<>> THEN 1 ELSE Head(s) * SeqProd(Tail(s))

RECURSIVE SeqSum(_)
SeqSum(s) == IF s = <<>> THEN 0 ELSE Head(s) + SeqSum(Tail(s))

\* all sequences over vals of length lo..hi
SeqsOf(vals, lo, hi) == UNION {[1..n -> vals] : n \in lo..hi}

\* VulkanCommon.h macros used by the file
UP_DIV(x, y) == (x + y - 1) \div y
ALIGN_UP4(x) == 4 * UP_DIV(x, 4)

(***************************************************************************)
(* Events: one record shape for every device call, unused fields empty.    *)
(***************************************************************************)
Ev(e) ==
  [ev |-> e, res |-> "", idx |-> -1, shader |-> "", grid |-> <<>>,
   wg |-> <<>>, cb |-> <<>>, cbf |-> <<>>, types |-> <<>>, args |-> <<>>]

\* makeUniformConstBuffer(&cb, sizeof(cb)): the int32 fields in declaration
\* order, and the float fields in declaration order
makeUniformConstBuffer(ints, floats) ==
  [Ev("makeUniformConstBuffer") EXCEPT !.res = "constBuffer", !.cb = ints, !.cbf = floats]

createDescriptorSetLayoutSinglePool(descriptorTypes) ==
  [Ev("createDescriptorSetLayoutSinglePool") EXCEPT !.types = descriptorTypes]

bindStorageImage(r, i) == [Ev("bindStorageImage") EXCEPT !.res = r, !.idx = i]
bindShaderRead(r, i)   == [Ev("bindShaderRead") EXCEPT !.res = r, !.idx = i]
bindBuffer(r, i)       == [Ev("bindBuffer") EXCEPT !.res = r, !.idx = i]

getComputeUnit(name, workGroupSize) ==
  [Ev("getComputeUnit") EXCEPT !.shader = name, !.wg = workGroupSize]

createCommandBuffer == Ev("createCommandBuffer")

addImageMemoryBarrierToGeneral(r) ==
  [Ev("addImageMemoryBarrierToGeneral") EXCEPT !.res = r]
addImageMemoryBarrierToShaderRead(r) ==
  [Ev("addImageMemoryBarrierToShaderRead") EXCEPT !.res = r]
addBufferMemoryBarrier(r) == [Ev("addBufferMemoryBarrier") EXCEPT !.res = r]
addMemoryBarrier == Ev("addMemoryBarrier")

\* dispatchCommandBuffer(x, y, z, workGroupSize) / dispatchCommandBuffer(x, y, z)
dispatchCommandBuffer(name, x, y, z, workGroupSize) ==
  [Ev("dispatchCommandBuffer") EXCEPT !.shader = name, !.grid = <<x, y, z>>,
                                      !.wg = workGroupSize]

endCommandBuffer == Ev("endCommandBuffer")

\* a submission that is not waited for
submitCommandBuffer == Ev("submitCommandBuffer")

submitAndWaitCommandBuffer == Ev("submitAndWaitCommandBuffer")
vkDestroyDescriptorPool == Ev("vkDestroyDescriptorPool")
vkDestroyDescriptorSetLayout == Ev("vkDestroyDescriptorSetLayout")

\* TORCH_INTERNAL_ASSERT(false, ...): the exception that ends the call
AssertFail(where) == [Ev("assert") EXCEPT !.res = where]

Failed(t) == Len(t) > 0 /\ t[Len(t)].ev = "assert"

\* submitAndWaitCommandBuffer throws: the device has failed
DeviceFailure == Ev("device failure")
Aborted(t) == Len(t) > 0 /\ t[Len(t)].ev = "device failure"

\* sequencing of two parts of a function: the second runs only if the first
\* did not throw
Then(t1, t2) == IF Failed(t1) THEN t1 ELSE t1 \o t2

STORAGE_IMAGE == "VK_DESCRIPTOR_TYPE_STORAGE_IMAGE"
COMBINED_IMAGE_SAMPLER == "VK_DESCRIPTOR_TYPE_COMBINED_IMAGE_SAMPLER"
UNIFORM_BUFFER == "VK_DESCRIPTOR_TYPE_UNIFORM_BUFFER"
STORAGE_BUFFER == "VK_DESCRIPTOR_TYPE_STORAGE_BUFFER"

(***************************************************************************)
(* Pooling and resampling.                                                 *)
(***************************************************************************)
upsample_nearest2d(IH, IW, OH, OW, N, C) ==
  LET c == N * C
      workGroupSize == <<8, 8, 1>>
  IN <<makeUniformConstBuffer(<<IW, IH, OW, OH>>, <<"scaleW", "scaleH">>),
       createDescriptorSetLayoutSinglePool(
         <<STORAGE_IMAGE, COMBINED_IMAGE_SAMPLER, UNIFORM_BUFFER>>),
       bindStorageImage("output", 0),
       bindShaderRead("input", 1),
       bindBuffer("constBuffer", 2),
       getComputeUnit("upsampleNearest2d", workGroupSize),
       createCommandBuffer,
       addImageMemoryBarrierToShaderRead("input"),
       dispatchCommandBuffer("upsampleNearest2d", OW, OH, c, workGroupSize),
       endCommandBuffer,
       submitAndWaitCommandBuffer,
       vkDestroyDescriptorPool,
       vkDestroyDescriptorSetLayout>>

adaptive_avg_pool2d(IH, IW, OH, OW, IN_, IC) ==
  LET c == IN_ * IC
      workGroupSize == <<8, 8, 1>>
  IN <<makeUniformConstBuffer(<<IW, IH, OW, OH>>, <<>>),
       createDescriptorSetLayoutSinglePool(
         <<STORAGE_IMAGE, COMBINED_IMAGE_SAMPLER, UNIFORM_BUFFER>>),
       bindStorageImage("output", 0),
       bindShaderRead("input", 1),
       bindBuffer("constBuffer", 2),
       getComputeUnit("adaptive_avg_pool2d", workGroupSize),
       createCommandBuffer,
       addImageMemoryBarrierToShaderRead("input"),
       dispatchCommandBuffer("adaptive_avg_pool2d", OW, OH, c, workGroupSize),
       endCommandBuffer,
       submitAndWaitCommandBuffer,
       vkDestroyDescriptorPool,
       vkDestroyDescriptorSetLayout>>

\* k = <<kH, kW, dH, dW, padH, padW, dilationH, dilationW>>
max_pool2d(iH, iW, oH, oW, n, c_, k) ==
  LET c == n * c_
      workGroupSize == <<8, 8, 1>>
  IN <<makeUniformConstBuffer(
         <<iW, iH, c, 0, oW, oH, c, 0, k[2], k[1], k[4], k[3], k[6], k[5], k[8], k[7]>>,
         <<>>),
       createDescriptorSetLayoutSinglePool(
         <<STORAGE_IMAGE, COMBINED_IMAGE_SAMPLER, UNIFORM_BUFFER>>),
       bindStorageImage("output", 0),
       bindShaderRead("input", 1),
       bindBuffer("constBuffer", 2),
       getComputeUnit("max_pool2d", workGroupSize),
       createCommandBuffer,
       addImageMemoryBarrierToShaderRead("input"),
       dispatchCommandBuffer("max_pool2d", oW, oH, c, workGroupSize),
       endCommandBuffer,
       submitAndWaitCommandBuffer,
       vkDestroyDescriptorPool,
       vkDestroyDescriptorSetLayout>>

(***************************************************************************)
(* Elementwise operators.                                                  *)
(***************************************************************************)
\* std::array<int64_t, 4> s4 = {1, 1, 1, 1}; std::copy(s.begin(), s.end(), s4.end() - dim)
PadTo4(s) == [i \in 1..4 |-> IF i > 4 - Len(s) THEN s[i - (4 - Len(s))] ELSE 1]

\* add(output, input0, input1, alpha) from the constant block on: os4 is the
\* output shape padded to 4 dimensions
add_dispatch(os4) ==
  LET C == os4[1] * os4[2]
      H == os4[3]
      W == os4[4]
      workGroupSize == <<8, 8, 1>>
  IN <<makeUniformConstBuffer(<<W, H, C>>, <<"alpha">>),
       createDescriptorSetLayoutSinglePool(
         <<STORAGE_IMAGE, COMBINED_IMAGE_SAMPLER, COMBINED_IMAGE_SAMPLER,
           UNIFORM_BUFFER>>),
       bindStorageImage("output", 0),
       bindShaderRead("input0", 1),
       bindShaderRead("input1", 2),
       bindBuffer("constBuffer", 3),
       getComputeUnit("add", workGroupSize),
       createCommandBuffer,
       addImageMemoryBarrierToGeneral("output"),
       addImageMemoryBarrierToShaderRead("input0"),
       addImageMemoryBarrierToShaderRead("input1"),
       dispatchCommandBuffer("add", W, H, C, workGroupSize),
       endCommandBuffer,
       submitAndWaitCommandBuffer,
       vkDestroyDescriptorPool,
       vkDestroyDescriptorSetLayout>>

\* add as it would be if a dimension of size 1 were broadcast against the
\* output's
add_broadcasting(os, i0s, i1s) ==
  IF Len(os) > 4 THEN <<AssertFail("output dim > 4")>>
  ELSE IF Len(i0s) > 4 THEN <<AssertFail("input0 dim > 4")>>
  ELSE IF Len(i1s) > 4 THEN <<AssertFail("input1 dim > 4")>>
  ELSE
    LET os4 == PadTo4(os)
        i0s4 == PadTo4(i0s)
        i1s4 == PadTo4(i1s)
    IN IF ~(\A i \in 1..4 : /\ i0s4[i] \in {1, os4[i]}
                            /\ i1s4[i] \in {1, os4[i]})
       THEN <<AssertFail("same dimensions for all operands")>>
       ELSE add_dispatch(os4)

add(os, i0s, i1s) ==
  IF Len(os) > 4 THEN <<AssertFail("output dim > 4")>>
  ELSE IF Len(i0s) > 4 THEN <<AssertFail("input0 dim > 4")>>
  ELSE IF Len(i1s) > 4 THEN <<AssertFail("input1 dim > 4")>>
  ELSE
    LET os4 == PadTo4(os)
        i0s4 == PadTo4(i0s)
        i1s4 == PadTo4(i1s)
    IN IF ~((os4 = i0s4) /\ (i0s4 = i1s4))
       THEN <<AssertFail("same dimensions for all operands")>>
       ELSE add_dispatch(os4)

\* sizes[i] of a std::vector (0-based i): reading at or past size() is an
\* out-of-bounds read, whose value the build does not determine (g)
At(sizes, i, g) == IF i + 1 <= Len(sizes) THEN sizes[i + 1] ELSE g

\* std::accumulate(sizes.cbegin(), sizes.cend() - 2, 1, std::multiplies<int64_t>())
LeadingProd(sizes) == SeqProd(SubSeq(sizes, 1, Len(sizes) - 2))

\* the part add(output, input, s) and mul(output, input, s) share: everything
\* after C, H and W are computed; they differ in the shader only
scalar_op(name, W, H, C) ==
  LET workGroupSize == <<8, 8, 1>>
  IN <<makeUniformConstBuffer(<<W, H, C, 0>>, <<"s">>),
       createDescriptorSetLayoutSinglePool(
         <<STORAGE_IMAGE, COMBINED_IMAGE_SAMPLER, UNIFORM_BUFFER>>),
       bindStorageImage("output", 0),
       bindShaderRead("input", 1),
       bindBuffer("constBuffer", 2),
       getComputeUnit(name, workGroupSize),
       createCommandBuffer,
       addImageMemoryBarrierToGeneral("output"),
       addImageMemoryBarrierToShaderRead("input"),
       dispatchCommandBuffer(name, W, H, C, workGroupSize),
       endCommandBuffer,
       submitAndWaitCommandBuffer,
       vkDestroyDescriptorPool,
       vkDestroyDescriptorSetLayout>>

\* add(output, input, s); g2, g3: what sizes[2], sizes[3] read when out of bounds
add_scalar(sizes, g2, g3) ==
  LET C == LeadingProd(sizes)
      H == At(sizes, 2, g2)
      W == At(sizes, 3, g3)
  IN scalar_op("add_scalar", W, H, C)

mul(sizes, g2, g3) ==
  LET C == LeadingProd(sizes)
      H == At(sizes, 2, g2)
      W == At(sizes, 3, g3)
  IN scalar_op("mul_scalar", W, H, C)

\* clamp(output, input, min, max); sizes are the output's
clamp(sizes, g) ==
  LET C == At(sizes, 0, g[1]) * At(sizes, 1, g[2])
      H == At(sizes, 2, g[3])
      W == At(sizes, 3, g[4])
      C_4 == UP_DIV(C, 4)
      workGroupSize == <<8, 8, 1>>
  IN <<makeUniformConstBuffer(<<W, H, C_4, C>>, <<"min", "max">>),
       createDescriptorSetLayoutSinglePool(
         <<STORAGE_IMAGE, COMBINED_IMAGE_SAMPLER, UNIFORM_BUFFER>>),
       bindStorageImage("output", 0),
       bindShaderRead("input", 1),
       bindBuffer("constBuffer", 2),
       getComputeUnit("clamp", workGroupSize),
       createCommandBuffer,
       addImageMemoryBarrierToGeneral("output"),
       addImageMemoryBarrierToShaderRead("input"),
       dispatchCommandBuffer("clamp", W, H, C, workGroupSize),
       endCommandBuffer,
       submitAndWaitCommandBuffer,
       vkDestroyDescriptorPool,
       vkDestroyDescriptorSetLayout>>

(***************************************************************************)
(* Matrix multiply and reduction.                                          *)
(***************************************************************************)
\* addmm with the additive term bound before the constant block
addmm_bindings_const_last(hasT) ==
  <<bindStorageImage("output", 0),
    bindShaderRead("m1", 1),
    bindShaderRead("m2", 2)>>
  \o (IF hasT THEN <<bindShaderRead("t", 3), bindBuffer("constBuffer", 4)>>
      ELSE <<bindBuffer("constBuffer", 3)>>)

\* the bind calls of addmm
addmm_bindings(hasT) ==
  <<bindStorageImage("output", 0),
    bindShaderRead("m1", 1),
    bindShaderRead("m2", 2),
    bindBuffer("constBuffer", 3)>>
  \o (IF hasT THEN <<bindShaderRead("t", 4)>> ELSE <<>>)

addmm(hasT, m1Sizes, m2Sizes) ==
  IF Len(m1Sizes) # 2 THEN <<AssertFail("m1Sizes.size() == 2")>>
  ELSE IF Len(m2Sizes) # 2 THEN <<AssertFail("m2Sizes.size() == 2")>>
  ELSE
    LET m1H == m1Sizes[1]
        m1W == m1Sizes[2]
        m1C == 1
        m2H == m2Sizes[1]
        m2W == m2Sizes[2]
        m2C == 1
        OH == m1Sizes[1]
        OW == m2Sizes[2]
    IN IF m1W # m2H THEN <<AssertFail("m1W == m2H")>>
       ELSE IF m1C # m2C THEN <<AssertFail("m1C == m2C")>>
       ELSE
         LET C == m1C
             C_4 == UP_DIV(C, 4)
             K == m1W
             workGroupSize == <<8, 8, 1>>
             descriptorTypes ==
               IF hasT
               THEN <<STORAGE_IMAGE, COMBINED_IMAGE_SAMPLER, COMBINED_IMAGE_SAMPLER,
                      UNIFORM_BUFFER, COMBINED_IMAGE_SAMPLER>>
               ELSE <<STORAGE_IMAGE, COMBINED_IMAGE_SAMPLER, COMBINED_IMAGE_SAMPLER,
                      UNIFORM_BUFFER>>
         IN <<makeUniformConstBuffer(<<OW, OH, C_4, C, K>>, <<"beta", "alpha">>),
              createDescriptorSetLayoutSinglePool(descriptorTypes)>>
            \o addmm_bindings(hasT)
            \o (IF hasT
                THEN <<getComputeUnit("addmm", workGroupSize),
                       createCommandBuffer,
                       addImageMemoryBarrierToGeneral("output"),
                       addImageMemoryBarrierToShaderRead("m1"),
                       addImageMemoryBarrierToShaderRead("m2"),
                       addImageMemoryBarrierToShaderRead("t"),
                       dispatchCommandBuffer("addmm", OW, OH, C_4, workGroupSize),
                       endCommandBuffer,
                       submitAndWaitCommandBuffer>>
                ELSE <<getComputeUnit("mm", workGroupSize),
                       createCommandBuffer,
                       addImageMemoryBarrierToGeneral("output"),
                       addImageMemoryBarrierToShaderRead("m1"),
                       addImageMemoryBarrierToShaderRead("m2"),
                       dispatchCommandBuffer("mm", OW, OH, C_4, workGroupSize),
                       endCommandBuffer,
                       submitAndWaitCommandBuffer>>)
            \o <<vkDestroyDescriptorPool, vkDestroyDescriptorSetLayout>>

\* mean(output, input); isizes are the input's
mean(isizes, g) ==
  LET N == At(isizes, 0, g[1])
      C == At(isizes, 1, g[2])
      H == At(isizes, 2, g[3])
      W == At(isizes, 3, g[4])
      C_4 == UP_DIV(N * C, 4)
      workGroupSize == <<1, 1, 1>>
  IN <<makeUniformConstBuffer(<<W, H, C, N>>, <<>>),
       createDescriptorSetLayoutSinglePool(
         <<STORAGE_IMAGE, COMBINED_IMAGE_SAMPLER, UNIFORM_BUFFER>>),
       bindStorageImage("output", 0),
       bindShaderRead("input", 1),
       bindBuffer("constBuffer", 2),
       getComputeUnit("mean", workGroupSize),
       createCommandBuffer,
       addImageMemoryBarrierToGeneral("output"),
       addImageMemoryBarrierToShaderRead("input"),
       dispatchCommandBuffer("mean", 1, 1, C_4, workGroupSize),
       endCommandBuffer,
       submitAndWaitCommandBuffer,
       vkDestroyDescriptorPool,
       vkDestroyDescriptorSetLayout>>

(***************************************************************************)
(* Convolution.                                                            *)
(***************************************************************************)
\* Conv2DParams (VulkanConvolution.h): the derived fields are the channel
\* block counts, ceil(channels / 4)
Conv2DParams(C, OC, G, geom) ==
  [C |-> C, OC |-> OC, G |-> G, C_4 |-> UP_DIV(C, 4), OC_4 |-> UP_DIV(OC, 4),
   H |-> geom.H, W |-> geom.W, OH |-> geom.OH, OW |-> geom.OW,
   KH |-> geom.KH, KW |-> geom.KW, SY |-> geom.SY, SX |-> geom.SX,
   PY |-> geom.PY, PX |-> geom.PX, DY |-> geom.DY, DX |-> geom.DX]

ROUND_UP(x, y) == ((x + y - 1) \div y) * y

\* output_min ? *output_min : -infinity, output_max ? *output_max : +infinity
OutputMin(hasMin) == IF hasMin THEN "output_min" ELSE "-inf"
OutputMax(hasMax) == IF hasMax THEN "output_max" ELSE "+inf"

\* bufferFromOptionalHostData(data, dataSize, bufferSize); align is
\* context().limits().minStorageBufferOffsetAlignment
bufferFromOptionalHostData(hasData, dataSize, bufferSize, align) ==
  IF ~(dataSize <= bufferSize) THEN <<AssertFail("buffer size is not enough for data")>>
  ELSE
    LET sizeAligned == ROUND_UP(bufferSize, align)
    IN <<[Ev("VBuffer") EXCEPT !.res = "biasBuffer", !.args = <<sizeAligned>>],
         IF hasData
         THEN [Ev("copy_from_host_to_device") EXCEPT !.res = "biasBuffer",
                                                    !.args = <<dataSize>>]
         ELSE [Ev("set_zeros") EXCEPT !.res = "biasBuffer"]>>

\* conv2d_depthwise(output, input, weight, const VBuffer& biasBuffer, params, ...)
\* from the constant block on
conv2d_depthwise_dispatch(params, hasMin, hasMax) ==
  LET workGroupSize == <<8, 8, 1>>
  IN <<makeUniformConstBuffer(
         <<params.PX, params.PY,
           params.KW, params.KH,
           params.SX, params.SY,
           params.DX, params.DY,
           params.OW, params.OH, params.OC_4, 0,
           params.W, params.H, params.C_4, 0>>,
         <<OutputMin(hasMin), OutputMax(hasMax)>>),
       createDescriptorSetLayoutSinglePool(
         <<STORAGE_IMAGE, COMBINED_IMAGE_SAMPLER, COMBINED_IMAGE_SAMPLER,
           STORAGE_BUFFER, UNIFORM_BUFFER>>),
       bindStorageImage("output", 0),
       bindShaderRead("input", 1),
       bindShaderRead("weight", 2),
       bindBuffer("biasBuffer", 3),
       bindBuffer("constBuffer", 4),
       getComputeUnit("conv2d_dw_clamp", workGroupSize),
       createCommandBuffer,
       addImageMemoryBarrierToGeneral("output"),
       addImageMemoryBarrierToShaderRead("input"),
       addImageMemoryBarrierToShaderRead("weight"),
       dispatchCommandBuffer("conv2d_dw_clamp", params.OW, params.OH, params.OC_4,
                             workGroupSize),
       endCommandBuffer,
       submitAndWaitCommandBuffer,
       vkDestroyDescriptorPool,
       vkDestroyDescriptorSetLayout>>

\* conv2d_depthwise without its check of the group count
conv2d_depthwise_buffer_unchecked(params, osizes, hasMin, hasMax) ==
  IF ~(osizes[3] = params.OH) THEN <<AssertFail("osizes[2] == params.OH")>>
  ELSE IF ~(osizes[4] = params.OW) THEN <<AssertFail("osizes[3] == params.OW")>>
  ELSE conv2d_depthwise_dispatch(params, hasMin, hasMax)

\* conv2d_depthwise(output, input, weight, const VBuffer& biasBuffer, params, ...)
\* osizes: the sizes of the output tensor, a 4-d tensor
conv2d_depthwise_buffer(params, osizes, hasMin, hasMax) ==
  IF ~(params.G = params.C) THEN <<AssertFail("params.G == params.C")>>
  ELSE IF ~(osizes[3] = params.OH) THEN <<AssertFail("osizes[2] == params.OH")>>
  ELSE IF ~(osizes[4] = params.OW) THEN <<AssertFail("osizes[3] == params.OW")>>
  ELSE conv2d_depthwise_dispatch(params, hasMin, hasMax)

\* conv2d_depthwise(output, input, const VulkanTensor& weight, optional bias, ...)
conv2d_depthwise_tensor(params, osizes, hasBias, align, hasMin, hasMax) ==
  Then(bufferFromOptionalHostData(hasBias, 4 * params.OC, 4 * ALIGN_UP4(params.OC), align),
       conv2d_depthwise_buffer(params, osizes, hasMin, hasMax))

\* conv2d_depthwise(output, input, const float* weight, optional bias, ...)
conv2d_depthwise_weights(params, osizes, hasBias, align, hasMin, hasMax) ==
  Then(<<[Ev("VulkanTensor") EXCEPT !.res = "weightTensor",
                                    !.args = <<params.OC, params.KH, params.KW>>],
         [Ev("set_data_from_host") EXCEPT !.res = "weightTensor"]>>,
       Then(bufferFromOptionalHostData(hasBias, 4 * params.OC,
                                       4 * ALIGN_UP4(params.OC), align),
            conv2d_depthwise_buffer(params, osizes, hasMin, hasMax)))

\* the image sizes with one texel per block of 4 input channels
conv2d_prepack_weights_image_sizes_C_4(OC, C, KH, KW) ==
  <<UP_DIV(C, 4), UP_DIV(OC, 4), KH * KW>>

\* the imageSize of the ImageSizes returned (its dataSize is the same triple)
conv2d_prepack_weights_image_sizes(OC, C, KH, KW) ==
  <<ALIGN_UP4(C), UP_DIV(OC, 4), KH * KW>>

\* sizes: image.sizes() of the VImage passed in
conv2d_prepack_weights_to_image(sizes, OC, C, KH, KW) ==
  LET OC_4 == UP_DIV(OC, 4)
      C_4 == UP_DIV(C, 4)
      expectedSizes == conv2d_prepack_weights_image_sizes(OC, C, KH, KW)
      workGroupSize == <<1, 1, 1>>
  IN Then(
       <<[Ev("kernelNCHW_OCHW_repack_O4C4HWi4o4") EXCEPT
            !.res = "kernelBuffer",
            !.args = <<ALIGN_UP4(OC) * ALIGN_UP4(C) * KH * KW>>]>>,
       IF ~(sizes = expectedSizes)
       THEN <<AssertFail("Out VImage sizes do not match expected")>>
       ELSE
         <<makeUniformConstBuffer(<<KW * KH, C_4>>, <<>>),
           createDescriptorSetLayoutSinglePool(
             <<STORAGE_IMAGE, STORAGE_BUFFER, UNIFORM_BUFFER>>),
           bindStorageImage("image", 0),
           bindBuffer("kernelBuffer", 1),
           bindBuffer("constBuffer", 2),
           getComputeUnit("KO4C4HW_to_image", workGroupSize),
           createCommandBuffer,
           addImageMemoryBarrierToGeneral("image"),
           addBufferMemoryBarrier("kernelBuffer"),
           addMemoryBarrier,
           dispatchCommandBuffer("KO4C4HW_to_image", C_4, OC_4, KH * KW, workGroupSize),
           endCommandBuffer,
           submitAndWaitCommandBuffer,
           vkDestroyDescriptorPool,
           vkDestroyDescriptorSetLayout>>)

conv2d_prepack_weights_image(OC, C, KH, KW) ==
  LET sizes == conv2d_prepack_weights_image_sizes(OC, C, KH, KW)
  IN Then(<<[Ev("VImage") EXCEPT !.res = "image", !.args = sizes]>>,
          conv2d_prepack_weights_to_image(sizes, OC, C, KH, KW))

\* output.image(imageSizes) realizes the output tensor's image with these sizes
conv2d_prepack_weights(OC, C, KH, KW) ==
  LET imageSizes == conv2d_prepack_weights_image_sizes(OC, C, KH, KW)
  IN Then(<<[Ev("VImage") EXCEPT !.res = "image", !.args = imageSizes]>>,
          conv2d_prepack_weights_to_image(imageSizes, OC, C, KH, KW))

\* conv2d(output, input, const VImage& kernelImage, const VBuffer& biasBuffer, ...)
conv2d_image_buffer(params, osizes, hasMin, hasMax) ==
  IF ~(params.G = 1)
  THEN <<AssertFail("Prepacked kernel VImage for non-group conv2d only")>>
  ELSE IF ~(osizes[3] = params.OH)
  THEN <<AssertFail("Output tensor dims do not match specified conv2d params")>>
  ELSE IF ~(osizes[4] = params.OW)
  THEN <<AssertFail("Output tensor dims do not match specified conv2d params")>>
  ELSE
    LET workGroupSize == <<1, 1, params.OC_4>>
    IN <<makeUniformConstBuffer(
           <<params.PX, params.PY,
             params.KW, params.KH,
             params.SX, params.SY,
             params.DX, params.DY,
             params.OW, params.OH, params.OC_4, params.OC,
             params.W, params.H, params.C_4, params.C>>,
           <<OutputMin(hasMin), OutputMax(hasMax)>>),
         createDescriptorSetLayoutSinglePool(
           <<STORAGE_IMAGE, COMBINED_IMAGE_SAMPLER, COMBINED_IMAGE_SAMPLER,
             STORAGE_BUFFER, UNIFORM_BUFFER>>),
         bindStorageImage("output", 0),
         bindShaderRead("input", 1),
         bindShaderRead("kernelImage", 2),
         bindBuffer("biasBuffer", 3),
         bindBuffer("constBuffer", 4),
         getComputeUnit("conv2d_nogroup_clamp", workGroupSize),
         createCommandBuffer,
         addImageMemoryBarrierToGeneral("output"),
         addImageMemoryBarrierToShaderRead("input"),
         addImageMemoryBarrierToShaderRead("kernelImage"),
         dispatchCommandBuffer("conv2d_nogroup_clamp",
                               UP_DIV(params.OW, 4 * workGroupSize[1]),
                               UP_DIV(params.OH, workGroupSize[2]),
                               UP_DIV(params.OC_4, workGroupSize[3]),
                               <<>>),
         endCommandBuffer,
         submitAndWaitCommandBuffer,
         vkDestroyDescriptorPool,
         vkDestroyDescriptorSetLayout>>

\* conv2d(output, input, const VImage& kernelImage, optional bias, ...)
conv2d_image_bias(params, osizes, hasBias, align, hasMin, hasMax) ==
  IF ~(params.G = 1)
  THEN <<AssertFail("Prepacked kernel VImage for non-group conv2d only")>>
  ELSE Then(bufferFromOptionalHostData(hasBias, 4 * params.OC,
                                       4 * ALIGN_UP4(params.OC), align),
            conv2d_image_buffer(params, osizes, hasMin, hasMax))

\* conv2d(output, input, const VulkanTensor& weight_prepacked, optional bias, ...)
conv2d_prepacked_bias(params, osizes, hasBias, align, hasMin, hasMax) ==
  IF params.G > 1
  THEN Then(bufferFromOptionalHostData(hasBias, 4 * params.OC,
                                       4 * ALIGN_UP4(params.OC), align),
            conv2d_depthwise_buffer(params, osizes, hasMin, hasMax))
  ELSE conv2d_image_bias(params, osizes, hasBias, align, hasMin, hasMax)

\* conv2d(output, input, const VulkanTensor& weight_prepacked, const VulkanTensor& bias, ...)
conv2d_prepacked_tensorbias(params, osizes, hasMin, hasMax) ==
  IF params.G > 1
  THEN conv2d_depthwise_buffer(params, osizes, hasMin, hasMax)
  ELSE conv2d_image_buffer(params, osizes, hasMin, hasMax)

\* the inline conv2d repacking the weights as if they were [C, OC, KH, KW]
conv2d_weights_transposed(params, osizes, hasBias, align, hasMin, hasMax) ==
  IF params.G > 1
  THEN IF ~(params.G = params.C)
       THEN <<AssertFail("Vulkan conv2d supports only no-group and depthwise")>>
       ELSE conv2d_depthwise_weights(params, osizes, hasBias, align, hasMin, hasMax)
  ELSE Then(conv2d_prepack_weights_image(params.C, params.OC, params.KH, params.KW),
            conv2d_image_bias(params, osizes, hasBias, align, hasMin, hasMax))

\* conv2d(output, input, const float* weight, optional bias, ...)
conv2d_weights(params, osizes, hasBias, align, hasMin, hasMax) ==
  IF params.G > 1
  THEN IF ~(params.G = params.C)
       THEN <<AssertFail("Vulkan conv2d supports only no-group and depthwise")>>
       ELSE conv2d_depthwise_weights(params, osizes, hasBias, align, hasMin, hasMax)
  ELSE Then(conv2d_prepack_weights_image(params.OC, params.C, params.KH, params.KW),
            conv2d_image_bias(params, osizes, hasBias, align, hasMin, hasMax))

(***************************************************************************)
(* The arguments the entry points are called with.                         *)
(***************************************************************************)
\* the number of dimensions of s that are not 1
RECURSIVE NonUnit(_)
NonUnit(s) == IF s = <<>> THEN 0
              ELSE (IF Head(s) # 1 THEN 1 ELSE 0) + NonUnit(Tail(s))

\* shapes of rank lo..hi over vals with at most big dimensions other than 1
ShapesOf(vals, lo, hi, big) == {s \in SeqsOf(vals, lo, hi) : NonUnit(s) <= big}

AddShapes == ShapesOf({1, 2}, 0, MaxRank, MaxBig)
ScalarShapes == ShapesOf({1, 2, 3}, 2, MaxRank, MaxBig + 1)

\* what an out-of-bounds read of a sizes vector may return
Garbage == {0, 9}

\* one choice of garbage per index, fixed to 0 where the read is in bounds
GarbageFor(sizes, n) ==
  {g \in [1..n -> Garbage] : \A i \in 1..n : i <= Len(sizes) => g[i] = 0}

\* kernel, stride, padding, dilation and extents passed through to the shader;
\* all different, so that exchanged fields show
PoolKernels == {<<2, 3, 4, 5, 6, 7, 8, 9>>, <<1, 1, 1, 1, 0, 0, 1, 1>>}

ConvGeoms ==
  {[H |-> 10, W |-> 11, OH |-> 2, OW |-> 1, KH |-> 2, KW |-> 1, SY |-> 4, SX |-> 5,
    PY |-> 6, PX |-> 7, DY |-> 8, DX |-> 9],
   [H |-> 2, W |-> 2, OH |-> 1, OW |-> 2, KH |-> 1, KW |-> 2, SY |-> 1, SX |-> 1,
    PY |-> 0, PX |-> 0, DY |-> 1, DX |-> 1]}

\* context().limits().minStorageBufferOffsetAlignment of the device
Alignments == {16, 64}

Chans == 1..MaxChan
Groups == 1..(MaxChan + 1)
Kernels == 1..MaxK

\* sizes of a caller-supplied weight image
ImageSizeSet ==
  (1..ALIGN_UP4(MaxChan)) \X (1..UP_DIV(MaxChan, 4)) \X (1..(MaxK * MaxK))

ConvParamSet ==
  {Conv2DParams(C, OC, G, geom) : C \in Chans, OC \in Chans, G \in Groups,
                                  geom \in ConvGeoms}

\* the sizes of a 4-d output tensor: one image, with the channels the
\* parameters say or one more
OutputSizes(params) ==
  {<<1, oc, h, w>> : oc \in {params.OC, params.OC + 1}, h \in Ext, w \in Ext}

\* the last two sizes of an output tensor, or the sizes of one of 2 dimensions
PlaneSizes == {<<h, w>> : h \in Ext, w \in Ext}

(***************************************************************************)
(* The state machine: one action per entry point.                          *)
(***************************************************************************)
\* no call is in progress
Idle == call.op = "none"

\* a call can be made: none is in progress, and none has ended in a device
\* failure, which is fatal and leaves descriptor objects live
Ready == Idle /\ heap = <<>>

\* what a call that would record the device calls t does: all of t, or, if the
\* device fails in a submitAndWaitCommandBuffer, t up to there and the
\* exception that leaves the entry point
Outcomes(t) ==
  {t} \cup {Append(SubSeq(t, 1, k), DeviceFailure) :
             k \in {i \in 1..Len(t) : t[i].ev = "submitAndWaitCommandBuffer"}}

\* the descriptor pools and layouts created in t and not destroyed in it; the
\* destroy calls that follow a creation, up to the next one, are of its objects
LiveAfter(t) ==
  LET created == {i \in 1..Len(t) : t[i].ev = "createDescriptorSetLayoutSinglePool"}
      upto(j) == IF \E i \in created : i > j
                 THEN (CHOOSE i \in created : i > j /\ \A m \in created : m > j => i <= m) - 1
                 ELSE Len(t)
      destroyed(j, e) == \E k \in (j + 1)..upto(j) : t[k].ev = e
      live(j) == (IF destroyed(j, "vkDestroyDescriptorPool") THEN <<>>
                  ELSE <<"descriptorPool">>)
                 \o (IF destroyed(j, "vkDestroyDescriptorSetLayout") THEN <<>>
                     ELSE <<"descriptorSetLayout">>)
      RECURSIVE collect(_)
      collect(j) == IF j > Len(t) THEN <<>>
                    ELSE (IF j \in created THEN live(j) ELSE <<>>) \o collect(j + 1)
  IN collect(1)

Init ==
  /\ call = [op |-> "none"]
  /\ trace = <<>>
  /\ heap = <<>>

CallUpsampleNearest2d ==
  /\ Ready
  /\ \E IH \in Ext, IW \in Ext, OH \in Ext, OW \in Ext, N \in Ext, C \in Ext,
     osizes \in PlaneSizes :
    /\ call' = [op |-> "upsample_nearest2d", IH |-> IH, IW |-> IW, OH |-> OH,
                OW |-> OW, N |-> N, C |-> C, osizes |-> <<N, C>> \o osizes]
    /\ trace' \in Outcomes(upsample_nearest2d(IH, IW, OH, OW, N, C))
    /\ UNCHANGED heap

CallAdaptiveAvgPool2d ==
  /\ Ready
  /\ \E IH \in Ext, IW \in Ext, OH \in Ext, OW \in Ext, N \in Ext, C \in Ext,
     osizes \in PlaneSizes :
    /\ call' = [op |-> "adaptive_avg_pool2d", IH |-> IH, IW |-> IW, OH |-> OH,
                OW |-> OW, N |-> N, C |-> C, osizes |-> <<N, C>> \o osizes]
    /\ trace' \in Outcomes(adaptive_avg_pool2d(IH, IW, OH, OW, N, C))
    /\ UNCHANGED heap

CallMaxPool2d ==
  /\ Ready
  /\ \E iH \in Ext, iW \in Ext, oH \in Ext, oW \in Ext, n \in Ext, c \in Ext,
     k \in PoolKernels, osizes \in PlaneSizes :
    /\ call' = [op |-> "max_pool2d", iH |-> iH, iW |-> iW, oH |-> oH, oW |-> oW,
                n |-> n, c |-> c, k |-> k, osizes |-> <<n, c>> \o osizes]
    /\ trace' \in Outcomes(max_pool2d(iH, iW, oH, oW, n, c, k))
    /\ UNCHANGED heap

CallAdd ==
  /\ Ready
  /\ \E os \in AddShapes, i0s \in AddShapes, i1s \in AddShapes :
    /\ call' = [op |-> "add", os |-> os, i0s |-> i0s, i1s |-> i1s]
    /\ trace' \in Outcomes(add(os, i0s, i1s))
    /\ UNCHANGED heap

CallAddScalar ==
  /\ Ready
  /\ \E sizes \in ScalarShapes :
    \E g \in GarbageFor(sizes, 4) :
      /\ call' = [op |-> "add_scalar", sizes |-> sizes, g |-> g]
      /\ trace' \in Outcomes(add_scalar(sizes, g[3], g[4]))
      /\ UNCHANGED heap

CallMul ==
  /\ Ready
  /\ \E sizes \in ScalarShapes :
    \E g \in GarbageFor(sizes, 4) :
      /\ call' = [op |-> "mul", sizes |-> sizes, g |-> g]
      /\ trace' \in Outcomes(mul(sizes, g[3], g[4]))
      /\ UNCHANGED heap

CallClamp ==
  /\ Ready
  /\ \E sizes \in ScalarShapes :
    \E g \in GarbageFor(sizes, 4) :
      /\ call' = [op |-> "clamp", sizes |-> sizes, g |-> g]
      /\ trace' \in Outcomes(clamp(sizes, g))
      /\ UNCHANGED heap

CallMean ==
  /\ Ready
  /\ \E isizes \in ScalarShapes, osizes \in PlaneSizes :
    \E g \in GarbageFor(isizes, 4) :
      /\ call' = [op |-> "mean", isizes |-> isizes, g |-> g, osizes |-> osizes]
      /\ trace' \in Outcomes(mean(isizes, g))
      /\ UNCHANGED heap

CallAddmm ==
  /\ Ready
  /\ \E hasT \in BOOLEAN, m1Sizes \in SeqsOf(Ext, 1, 3), m2Sizes \in SeqsOf(Ext, 1, 3),
     osizes \in PlaneSizes :
    /\ call' = [op |-> "addmm", hasT |-> hasT, m1Sizes |-> m1Sizes,
                m2Sizes |-> m2Sizes, osizes |-> osizes]
    /\ trace' \in Outcomes(addmm(hasT, m1Sizes, m2Sizes))
    /\ UNCHANGED heap

CallConv2dDepthwiseBuffer ==
  /\ Ready
  /\ \E params \in ConvParamSet, hasMin \in BOOLEAN, hasMax \in BOOLEAN :
    \E osizes \in OutputSizes(params) :
      /\ call' = [op |-> "conv2d_depthwise_buffer", params |-> params,
                  osizes |-> osizes, hasMin |-> hasMin, hasMax |-> hasMax]
      /\ trace' \in Outcomes(conv2d_depthwise_buffer(params, osizes, hasMin, hasMax))
      /\ UNCHANGED heap

CallConv2dDepthwiseTensor ==
  /\ Ready
  /\ \E params \in ConvParamSet, hasBias \in BOOLEAN, align \in Alignments,
     hasMin \in BOOLEAN, hasMax \in BOOLEAN :
    \E osizes \in OutputSizes(params) :
      /\ call' = [op |-> "conv2d_depthwise_tensor", params |-> params,
                  osizes |-> osizes, hasBias |-> hasBias, align |-> align,
                  hasMin |-> hasMin, hasMax |-> hasMax]
      /\ trace' \in Outcomes(conv2d_depthwise_tensor(params, osizes, hasBias, align, hasMin, hasMax))
      /\ UNCHANGED heap

CallConv2dDepthwiseWeights ==
  /\ Ready
  /\ \E params \in ConvParamSet, hasBias \in BOOLEAN, align \in Alignments,
     hasMin \in BOOLEAN, hasMax \in BOOLEAN :
    \E osizes \in OutputSizes(params) :
      /\ call' = [op |-> "conv2d_depthwise_weights", params |-> params,
                  osizes |-> osizes, hasBias |-> hasBias, align |-> align,
                  hasMin |-> hasMin, hasMax |-> hasMax]
      /\ trace' \in Outcomes(conv2d_depthwise_weights(params, osizes, hasBias, align, hasMin, hasMax))
      /\ UNCHANGED heap

CallConv2dPrepackWeightsToImage ==
  /\ Ready
  /\ \E sizes \in ImageSizeSet, OC \in Chans, C \in Chans, KH \in Kernels, KW \in Kernels :
    /\ call' = [op |-> "conv2d_prepack_weights_to_image", sizes |-> sizes,
                OC |-> OC, C |-> C, KH |-> KH, KW |-> KW]
    /\ trace' \in Outcomes(conv2d_prepack_weights_to_image(sizes, OC, C, KH, KW))
    /\ UNCHANGED heap

CallConv2dPrepackWeightsImage ==
  /\ Ready
  /\ \E OC \in Chans, C \in Chans, KH \in Kernels, KW \in Kernels :
    /\ call' = [op |-> "conv2d_prepack_weights_image", OC |-> OC, C |-> C,
                KH |-> KH, KW |-> KW]
    /\ trace' \in Outcomes(conv2d_prepack_weights_image(OC, C, KH, KW))
    /\ UNCHANGED heap

CallConv2dPrepackWeights ==
  /\ Ready
  /\ \E OC \in Chans, C \in Chans, KH \in Kernels, KW \in Kernels :
    /\ call' = [op |-> "conv2d_prepack_weights", OC |-> OC, C |-> C,
                KH |-> KH, KW |-> KW]
    /\ trace' \in Outcomes(conv2d_prepack_weights(OC, C, KH, KW))
    /\ UNCHANGED heap

CallConv2dImageBuffer ==
  /\ Ready
  /\ \E params \in ConvParamSet, hasMin \in BOOLEAN, hasMax \in BOOLEAN :
    \E osizes \in OutputSizes(params) :
      /\ call' = [op |-> "conv2d_image_buffer", params |-> params,
                  osizes |-> osizes, hasMin |-> hasMin, hasMax |-> hasMax]
      /\ trace' \in Outcomes(conv2d_image_buffer(params, osizes, hasMin, hasMax))
      /\ UNCHANGED heap

CallConv2dImageBias ==
  /\ Ready
  /\ \E params \in ConvParamSet, hasBias \in BOOLEAN, align \in Alignments,
     hasMin \in BOOLEAN, hasMax \in BOOLEAN :
    \E osizes \in OutputSizes(params) :
      /\ call' = [op |-> "conv2d_image_bias", params |-> params,
                  osizes |-> osizes, hasBias |-> hasBias, align |-> align,
                  hasMin |-> hasMin, hasMax |-> hasMax]
      /\ trace' \in Outcomes(conv2d_image_bias(params, osizes, hasBias, align, hasMin, hasMax))
      /\ UNCHANGED heap

CallConv2dPrepackedBias ==
  /\ Ready
  /\ \E params \in ConvParamSet, hasBias \in BOOLEAN, align \in Alignments,
     hasMin \in BOOLEAN, hasMax \in BOOLEAN :
    \E osizes \in OutputSizes(params) :
      /\ call' = [op |-> "conv2d_prepacked_bias", params |-> params,
                  osizes |-> osizes, hasBias |-> hasBias, align |-> align,
                  hasMin |-> hasMin, hasMax |-> hasMax]
      /\ trace' \in Outcomes(conv2d_prepacked_bias(params, osizes, hasBias, align, hasMin, hasMax))
      /\ UNCHANGED heap

CallConv2dPrepackedTensorBias ==
  /\ Ready
  /\ \E params \in ConvParamSet, hasMin \in BOOLEAN, hasMax \in BOOLEAN :
    \E osizes \in OutputSizes(params) :
      /\ call' = [op |-> "conv2d_prepacked_tensorbias", params |-> params,
                  osizes |-> osizes, hasMin |-> hasMin, hasMax |-> hasMax]
      /\ trace' \in Outcomes(conv2d_prepacked_tensorbias(params, osizes, hasMin, hasMax))
      /\ UNCHANGED heap

CallConv2dWeights ==
  /\ Ready
  /\ \E params \in ConvParamSet, hasBias \in BOOLEAN, align \in Alignments,
     hasMin \in BOOLEAN, hasMax \in BOOLEAN :
    \E osizes \in OutputSizes(params) :
      /\ call' = [op |-> "conv2d_weights", params |-> params,
                  osizes |-> osizes, hasBias |-> hasBias, align |-> align,
                  hasMin |-> hasMin, hasMax |-> hasMax]
      /\ trace' \in Outcomes(conv2d_weights(params, osizes, hasBias, align, hasMin, hasMax))
      /\ UNCHANGED heap

\* the call has returned (or thrown) to the caller, which may call again
\* unless the device failed; the descriptor pools and layouts the call has
\* not destroyed stay live
Return ==
  /\ ~Idle
  /\ call' = [op |-> "none"]
  /\ trace' = <<>>
  /\ heap' = heap \o LiveAfter(trace)

Next ==
  \/ Return
  \/ CallUpsampleNearest2d
  \/ CallAdaptiveAvgPool2d
  \/ CallMaxPool2d
  \/ CallAdd
  \/ CallAddScalar
  \/ CallMul
  \/ CallClamp
  \/ CallMean
  \/ CallAddmm
  \/ CallConv2dDepthwiseBuffer
  \/ CallConv2dDepthwiseTensor
  \/ CallConv2dDepthwiseWeights
  \/ CallConv2dPrepackWeightsToImage
  \/ CallConv2dPrepackWeightsImage
  \/ CallConv2dPrepackWeights
  \/ CallConv2dImageBuffer
  \/ CallConv2dImageBias
  \/ CallConv2dPrepackedBias
  \/ CallConv2dPrepackedTensorBias
  \/ CallConv2dWeights

Spec == Init /\ [][Next]_vars

(***************************************************************************)
(* Weight repacking on the host.                                           *)
(***************************************************************************)
\* the float offset from basePtr that weight (oc, ic, ky, kx) is written to:
\* dst_kx + 4 * ic_4_i + oc_4_i with the lanes of a block collapsed
repack_dst_lanes_added(OC, C, KH, KW, oc, ic, ky, kx) ==
  LET C_4 == UP_DIV(C, 4)
      oc_4SizeNumel == KW * KH * C_4 * 16
  IN (oc \div 4) * oc_4SizeNumel + (ic \div 4) * KW * KH * 16 + ky * KW * 16 + kx * 16
       + (ic % 4) + (oc % 4)

\* the same offset with the two lane indices exchanged
repack_dst_lanes_swapped(OC, C, KH, KW, oc, ic, ky, kx) ==
  LET C_4 == UP_DIV(C, 4)
      oc_4SizeNumel == KW * KH * C_4 * 16
  IN (oc \div 4) * oc_4SizeNumel + (ic \div 4) * KW * KH * 16 + ky * KW * 16 + kx * 16
       + 4 * (oc % 4) + (ic % 4)

\* the float offset from basePtr that weight (oc, ic, ky, kx) is written to
repack_dst(OC, C, KH, KW, oc, ic, ky, kx) ==
  LET C_4 == UP_DIV(C, 4)
      oc_4SizeNumel == KW * KH * C_4 * 16
      oc_4 == oc \div 4
      oc_4_i == oc % 4
      dst_oc == oc_4 * oc_4SizeNumel
      ic_4 == ic \div 4
      ic_4_i == ic % 4
      dst_ic == dst_oc + ic_4 * KW * KH * 16
      dst_ky == dst_ic + ky * KW * 16
      dst_kx == dst_ky + kx * 16
  IN dst_kx + 4 * ic_4_i + oc_4_i

\* the loop nest over oc, ic, ky, kx: iteration number ridx (from 0) is at
\* (oc, ic, ky, kx), kx running fastest
repack_iteration(OC, C, KH, KW, ridx) ==
  [kx |-> ridx % KW,
   ky |-> (ridx \div KW) % KH,
   ic |-> (ridx \div (KW * KH)) % C,
   oc |-> ridx \div (KW * KH * C)]

\* the offsets written, in the order of the writes: writes[ridx + 1] is where
\* src[ridx] goes
repack_writes(OC, C, KH, KW) ==
  [n \in 1..(OC * C * KH * KW) |->
     LET it == repack_iteration(OC, C, KH, KW, n - 1)
     IN repack_dst(OC, C, KH, KW, it.oc, it.ic, it.ky, it.kx)]

\* the buffer after memset(basePtr, 0, size) and the writes of the loop nest
\* in their order: a float holds the last weight written to it, 0 if none was
repack_fill(kBufSizeNumel, writes, weights) ==
  [pos \in 0..(kBufSizeNumel - 1) |->
     LET W == {n \in 1..Len(writes) : writes[n] = pos}
     IN IF W = {} THEN 0 ELSE weights[SetMax(W)]]

\* kernelNCHW_OCHW_repack_O4C4HWi4o4(weights, OC, C, KH, KW) with the buffer
\* mapped: the floats of the VBuffer returned, and the offsets written
kernelNCHW_OCHW_repack_O4C4HWi4o4(weights, OC, C, KH, KW) ==
  LET kBufSizeNumel == ALIGN_UP4(OC) * ALIGN_UP4(C) * KH * KW
      writes == repack_writes(OC, C, KH, KW)
  IN [kind |-> "VBuffer",
      data |-> repack_fill(kBufSizeNumel, writes, weights),
      writes |-> writes]

\* dense [OC, C, KH, KW] weight arrays: element i (from 1) of pattern 1 is i,
\* of pattern 2 is i % 3, which repeats values and has zeros
WeightPatterns == {1, 2}
Weights(pattern, n) == [i \in 1..n |-> IF pattern = 1 THEN i ELSE i % 3]

CallRepack ==
  /\ Idle
  /\ \E OC \in Chans, C \in Chans, KH \in Kernels, KW \in Kernels,
        pattern \in WeightPatterns :
       LET weights == Weights(pattern, OC * C * KH * KW)
       IN /\ call' = [op |-> "kernelNCHW_OCHW_repack_O4C4HWi4o4", OC |-> OC, C |-> C,
                      KH |-> KH, KW |-> KW, weights |-> weights]
          /\ trace' = <<>>
          /\ heap' = <<kernelNCHW_OCHW_repack_O4C4HWi4o4(weights, OC, C, KH, KW)>>

\* the buffer goes out of scope at the caller
ReturnRepack ==
  /\ ~Idle
  /\ call' = [op |-> "none"]
  /\ trace' = <<>>
  /\ heap' = <<>>

NextRepack == CallRepack \/ ReturnRepack

SpecRepack == Init /\ [][NextRepack]_vars

(***************************************************************************)
(* Fixed-width integers.  A value is its little-endian sequence of bytes   *)
(* (limbs, 0..255) in two's complement: 4 limbs are an int, 8 limbs an     *)
(* int64_t; 16 limbs hold the exact products of the shapes used here.      *)
(***************************************************************************)
\* the k-limb value of a natural number below 2^31
Limbs(n, k) ==
  [i \in 1..k |-> IF i = 1 THEN n % 256
                  ELSE IF i = 2 THEN (n \div 256) % 256
                  ELSE IF i = 3 THEN (n \div 65536) % 256
                  ELSE IF i = 4 THEN (n \div 16777216) % 256
                  ELSE 0]

I64(n) == Limbs(n, 8)

\* the limbs of a, zero-extended (a value that is not negative) to k limbs
ZeroExtend(a, k) == [i \in 1..k |-> IF i <= Len(a) THEN a[i] ELSE 0]

\* conversion of a signed value to a wider signed type
SignExtend(a, k) ==
  [i \in 1..k |-> IF i <= Len(a) THEN a[i]
                  ELSE IF a[Len(a)] >= 128 THEN 255 ELSE 0]

\* conversion to a narrower type keeps the low limbs
Truncate(a, k) == [i \in 1..k |-> a[i]]

\* columns 1..i of the schoolbook product of a and b, each with the carry
\* from the column before it
RECURSIVE MulColumns(_, _, _)
MulColumns(a, b, i) ==
  IF i = 0 THEN <<>>
  ELSE LET below == MulColumns(a, b, i - 1)
           carry == IF i = 1 THEN 0 ELSE below[i - 1] \div 256
       IN Append(below, SeqSum([p \in 1..i |-> a[p] * b[i + 1 - p]]) + carry)

\* a * b modulo 2^(8 * Len(a)), a and b of the same length
MulWrap(a, b) ==
  LET columns == MulColumns(a, b, Len(a))
  IN [i \in 1..Len(a) |-> columns[i] % 256]

\* the value of limbs that stand for a natural number below 2^31
NatOf(a) == a[1] + 256 * a[2] + 65536 * a[3] + 16777216 * a[4]

IsSmall(a) == a[4] < 128 /\ \A i \in 5..Len(a) : a[i] = 0

\* the exact product of dimension sizes that are not negative, in 16 limbs
RECURSIVE ExactProduct(_)
ExactProduct(shape) ==
  IF shape = <<>> THEN Limbs(1, 16)
  ELSE MulWrap(ZeroExtend(Head(shape), 16), ExactProduct(Tail(shape)))

(***************************************************************************)
(* Tensors and buffer copies.                                              *)
(***************************************************************************)
\* the bytes of float number e (a tag, e >= 1): 4 bytes, all different
FloatBytes(e) == <<4 * e, 4 * e + 1, 4 * e + 2, 4 * e + 3>>

\* the bytes of the floats e0 + 1 .. e0 + n
RECURSIVE DataBytes(_, _)
DataBytes(e0, n) == IF n = 0 THEN <<>> ELSE DataBytes(e0, n - 1) \o FloatBytes(e0 + n)

\* bytes nothing was written to
Blank(n) == [i \in 1..n |-> 0]

\* A VulkanTensor (Vulkan.h): its sizes (int64_t each), its element count,
\* the bytes of its buffer and of its image, and which of the two holds the
\* data ("buffer", "image" or "both")
VulkanTensor(sizes, numel, buf, img, auth) ==
  [sizes |-> sizes, numel |-> numel, buf |-> buf, img |-> img, auth |-> auth]

\* the element sequence of a tensor, as bytes
Elements(t) == IF t.auth = "image" THEN t.img ELSE t.buf

\* VulkanTensor::sync_image_to_buffer: the buffer is brought up to date
sync_image_to_buffer(t) ==
  IF t.auth = "image" THEN [t EXCEPT !.buf = t.img, !.auth = "both"] ELSE t

\* copy_buffer_to_buffer(src, dst, size, srcOffset, dstOffset) on the bytes of
\* the two buffers
copy_buffer_to_buffer(src, dst, size, srcOffset, dstOffset) ==
  [i \in 1..Len(dst) |->
     IF dstOffset < i /\ i <= dstOffset + size /\ i - dstOffset + srcOffset <= Len(src)
     THEN src[i - dstOffset + srcOffset]
     ELSE dst[i]]

\* std::accumulate(std::begin(shape), std::end(shape), 1, std::multiplies<int64_t>())
\* after the first n sizes: the accumulator has the type of the initial value
\* 1, an int; each step multiplies in int64_t and converts the product to int
RECURSIVE accumulate_shape(_, _)
accumulate_shape(shape, n) ==
  IF n = 0 THEN Limbs(1, 4)
  ELSE Truncate(MulWrap(SignExtend(accumulate_shape(shape, n - 1), 8), shape[n]), 4)

\* reshape_copy(input, shape): the events, the input after the call and the
\* tensor returned (<<>> if the call throws)
reshape_copy(input, shape) ==
  LET shapeNumel == accumulate_shape(shape, Len(shape))
  IN IF ~(SignExtend(shapeNumel, 8) = input.numel)
     THEN [trace |-> <<AssertFail("reshape_copy expects shape with equal number of elements")>>,
           input |-> input,
           output |-> <<>>]
     ELSE
       LET synced == sync_image_to_buffer(input)
           numel == Truncate(ExactProduct(shape), 8)
           \* allocate_storage: a buffer of 4 * numel bytes; of a buffer too
           \* large to write down, the part the copy can reach
           allocated == IF IsSmall(numel) THEN Blank(4 * NatOf(numel))
                        ELSE Blank(Len(synced.buf))
           sizeBytes == Len(synced.buf)
           output == VulkanTensor(shape, numel,
                                  copy_buffer_to_buffer(synced.buf, allocated, sizeBytes, 0, 0),
                                  <<>>, "buffer")
       IN [trace |-> <<[Ev("sync_image_to_buffer") EXCEPT !.res = "input"],
                       [Ev("VulkanTensor") EXCEPT !.res = "output"],
                       [Ev("allocate_storage") EXCEPT !.res = "output"],
                       [Ev("copy_buffer_to_buffer") EXCEPT
                          !.res = "output", !.args = <<sizeBytes, 0, 0>>]>>,
           input |-> synced,
           output |-> <<output>>]

\* the loop of cat after the first n - 1 inputs, without the synchronisation
cat_iteration_unsynced(before, n) ==
  LET input == before.inputs[n]
      sizeBytes == 4 * NatOf(input.numel)
  IN [trace |-> before.trace
                  \o <<[Ev("copy_buffer_to_buffer") EXCEPT
                          !.res = "output", !.idx = n - 1,
                          !.args = <<sizeBytes, 0, before.outputOffset>>]>>,
      inputs |-> before.inputs,
      output |-> [before.output EXCEPT
                    !.buf = copy_buffer_to_buffer(input.buf, @, sizeBytes, 0,
                                                  before.outputOffset)],
      outputOffset |-> before.outputOffset + sizeBytes]

\* one iteration of the loop of cat, for inputs[n]
cat_iteration(before, n) ==
  LET input == sync_image_to_buffer(before.inputs[n])
      sizeBytes == 4 * NatOf(input.numel)
  IN [trace |-> before.trace
                  \o <<[Ev("sync_image_to_buffer") EXCEPT !.res = "input", !.idx = n - 1],
                       [Ev("copy_buffer_to_buffer") EXCEPT
                          !.res = "output", !.idx = n - 1,
                          !.args = <<sizeBytes, 0, before.outputOffset>>]>>,
      inputs |-> [before.inputs EXCEPT ![n] = input],
      output |-> [before.output EXCEPT
                    !.buf = copy_buffer_to_buffer(input.buf, @, sizeBytes, 0,
                                                  before.outputOffset)],
      outputOffset |-> before.outputOffset + sizeBytes]

\* the loop of cat after the first n inputs
RECURSIVE cat_loop(_, _, _)
cat_loop(output, inputs, n) ==
  IF n = 0
  THEN [trace |-> <<>>, inputs |-> inputs, output |-> output, outputOffset |-> 0]
  ELSE cat_iteration(cat_loop(output, inputs, n - 1), n)

\* cat(output, inputs, dim): dim is not read
cat(output, inputs, dim) == cat_loop(output, inputs, Len(inputs))

(***************************************************************************)
(* The buffer copies as a state machine.  heap holds the tensors of the    *)
(* call: for reshape_copy the input, then the tensor returned; for cat the *)
(* output, then the inputs.                                                *)
(***************************************************************************)
MaxInRank == 2
MaxShapeRank == 2
MaxCat == 2
MaxCatNumel == 2

Two16 == I64(65536)
Two31 == <<0, 0, 0, 128, 0, 0, 0, 0>>
Two31Plus3 == <<3, 0, 0, 128, 0, 0, 0, 0>>

\* a tensor of n floats numbered from e0 + 1, held in its buffer or its image
TensorOf(sizes, n, e0, auth) ==
  IF auth = "image"
  THEN VulkanTensor(sizes, I64(n), Blank(4 * n), DataBytes(e0, n), "image")
  ELSE VulkanTensor(sizes, I64(n), DataBytes(e0, n), <<>>, "buffer")

\* the tensors reshape_copy is called on: small ones, with all their bytes,
\* and one of 2^31 floats, of whose buffer only the first float is written down
ReshapeInputs ==
  { TensorOf([i \in 1..Len(sz) |-> I64(sz[i])], SeqProd(sz), 0, auth) :
      sz \in SeqsOf({1, 2, 3}, 1, MaxInRank), auth \in {"buffer", "image"} }
  \cup { VulkanTensor(<<Two31>>, Two31, DataBytes(0, 1), <<>>, "buffer") }

\* the shapes asked for; no product of these sizes overflows an int64_t
ReshapeShapes == SeqsOf({I64(1), I64(2), I64(3), Two16, Two31, Two31Plus3}, 0, MaxShapeRank)

\* the tensors cat is called on, the floats of inputs[i] numbered from 10 * i
CatInputs ==
  UNION { [1..n -> (0..MaxCatNumel) \X {"buffer", "image"}] : n \in 0..MaxCat }

CatTensors(choice) ==
  [i \in 1..Len(choice) |-> TensorOf(<<I64(choice[i][1])>>, choice[i][1], 10 * i, choice[i][2])]

\* the output of cat: room for the inputs and pad bytes more, nothing written
CatOutput(inputs, pad) ==
  LET total == SeqSum([i \in 1..Len(inputs) |-> Len(Elements(inputs[i]))])
  IN VulkanTensor(<<I64((total + pad) \div 4)>>, I64((total + pad) \div 4),
                  Blank(total + pad), <<>>, "buffer")

CallReshapeCopy ==
  /\ Idle
  /\ heap = <<>>
  /\ \E input \in ReshapeInputs, shape \in ReshapeShapes :
       LET r == reshape_copy(input, shape)
       IN /\ call' = [op |-> "reshape_copy", shape |-> shape, before |-> <<input>>,
                      back |-> FALSE]
          /\ trace' = r.trace
          /\ heap' = <<r.input>> \o r.output

\* the tensor returned is reshaped to the sizes of the tensor it was made from
CallReshapeCopyBack ==
  /\ Idle
  /\ Len(heap) = 2
  /\ LET r == reshape_copy(heap[2], heap[1].sizes)
     IN /\ call' = [op |-> "reshape_copy", shape |-> heap[1].sizes, before |-> heap,
                    back |-> TRUE]
        /\ trace' = r.trace
        /\ heap' = <<heap[1], r.input>> \o r.output

CallCat ==
  /\ Idle
  /\ heap = <<>>
  /\ \E choice \in CatInputs, pad \in {0, 4}, dim \in {0, 1} :
       LET inputs == CatTensors(choice)
           output == CatOutput(inputs, pad)
           r == cat(output, inputs, dim)
       IN /\ call' = [op |-> "cat", before |-> <<output>> \o inputs, dim |-> dim]
          /\ trace' = r.trace
          /\ heap' = <<r.output>> \o r.inputs

\* the call returns or throws; the result of a first reshape_copy is kept
ReturnCopy ==
  /\ ~Idle
  /\ call' = [op |-> "none"]
  /\ trace' = <<>>
  /\ heap' = IF call.op = "reshape_copy" /\ ~call.back /\ Len(heap) = 2
             THEN heap ELSE <<>>

NextCopy == CallReshapeCopy \/ CallReshapeCopyBack \/ CallCat \/ ReturnCopy

SpecCopy == Init /\ [][NextCopy]_vars

(***************************************************************************)
(* Reading a trace.                                                        *)
(***************************************************************************)
\* the positions of the events named e
Idxs(t, e) == {k \in 1..Len(t) : t[k].ev = e}

Dispatches(t) == Idxs(t, "dispatchCommandBuffer")

\* the position of the last event named e before position k, 0 if none
LastBefore(t, e, k) ==
  LET S == {j \in Idxs(t, e) : j < k} IN IF S = {} THEN 0 ELSE SetMax(S)

\* the resources an event of kind e names between positions lo and hi
ResBetween(t, e, lo, hi) == {t[i].res : i \in {j \in Idxs(t, e) : lo < j /\ j < hi}}

\* for the dispatch at position k: the images bound with call `bind` to the
\* descriptor set it uses, and the images with a barrier `barrier` recorded in
\* its command buffer before it
BoundBefore(t, bind, k) ==
  ResBetween(t, bind, LastBefore(t, "createDescriptorSetLayoutSinglePool", k), k)
BarrierBefore(t, barrier, k) ==
  IF LastBefore(t, "createCommandBuffer", k) = 0 THEN {}
  ELSE ResBetween(t, barrier, LastBefore(t, "createCommandBuffer", k), k)

IsBind(e) == e.ev \in {"bindStorageImage", "bindShaderRead", "bindBuffer"}

\* the bind calls made on the descriptor set created at position j
BindsOf(t, j) ==
  LET later == {k \in Idxs(t, "getComputeUnit") : k > j}
      hi == IF later = {} THEN Len(t) ELSE (CHOOSE k \in later : \A m \in later : k <= m) - 1
  IN SelectSeq(SubSeq(t, j + 1, hi), IsBind)

\* the resource bound at binding index i of the set with bind calls b
BoundAt(b, i) == {b[n] : n \in {m \in 1..Len(b) : b[m].idx = i}}

\* the position of x in the sequence s, 0 if it is not in it
PosIn(s, x) == IF \E i \in 1..Len(s) : s[i] = x
               THEN CHOOSE i \in 1..Len(s) : s[i] = x ELSE 0

NoDispatch(t) == Dispatches(t) = {} /\ Idxs(t, "submitAndWaitCommandBuffer") = {}

(***************************************************************************)
(* C1.  In the command buffer of every dispatch, a barrier moving the      *)
(* output image to general access and a shader-read barrier for every      *)
(* input image bound to the descriptor set come before the dispatch.       *)
(***************************************************************************)
C1_BarriersBeforeDispatch ==
  \A k \in Dispatches(trace) :
    /\ BoundBefore(trace, "bindStorageImage", k) # {}
    /\ BoundBefore(trace, "bindStorageImage", k)
         \subseteq BarrierBefore(trace, "addImageMemoryBarrierToGeneral", k)
    /\ BoundBefore(trace, "bindShaderRead", k)
         \subseteq BarrierBefore(trace, "addImageMemoryBarrierToShaderRead", k)

(***************************************************************************)
(* C2.  In every descriptor set binding 0 is the output, then come the     *)
(* input images in the order of the call's arguments, then auxiliary       *)
(* buffers, and the constant block has the highest index.                  *)
(***************************************************************************)
\* the operands of the entry points in the order of their parameter lists
\* (output first; addmm is addmm(output, t, m1, m2, beta, alpha)); the repacked
\* kernel buffer stands for the weight argument it is made from
ArgumentOrder ==
  <<"output", "image", "t", "input", "input0", "input1", "m1", "m2", "weight",
    "kernelImage", "kernelBuffer", "biasBuffer", "constBuffer">>

Inputs == {"t", "input", "input0", "input1", "m1", "m2", "weight", "kernelImage",
           "kernelBuffer"}

\* 0: the output, 1: an input, 2: an auxiliary buffer, 3: the constant block
BindingClass(e) ==
  IF e.ev = "bindStorageImage" THEN 0
  ELSE IF e.res \in Inputs THEN 1
  ELSE IF e.res = "constBuffer" THEN 3
  ELSE 2

\* the contract on the bind calls b of one descriptor set
BindingOrderContract(b) ==
  LET n == Len(b)
      at(i) == CHOOSE e \in BoundAt(b, i) : TRUE
  IN /\ n >= 2
     /\ \A i \in 0..(n - 1) : Cardinality(BoundAt(b, i)) = 1
     /\ BindingClass(at(0)) = 0
     /\ BindingClass(at(n - 1)) = 3
     /\ \A i \in 1..(n - 2) : BindingClass(at(i)) \in {1, 2}
     /\ \A i \in 0..(n - 2) :
          /\ BindingClass(at(i)) <= BindingClass(at(i + 1))
          /\ PosIn(ArgumentOrder, at(i).res) < PosIn(ArgumentOrder, at(i + 1).res)

IsAddmmWithT == call.op = "addmm" /\ call.hasT

\* the claim as stated: every operator, addmm with t included
C2_BindingOrderEveryOperator ==
  \A j \in Idxs(trace, "createDescriptorSetLayoutSinglePool") :
    BindingOrderContract(BindsOf(trace, j))

\* C2 as amended: the contract holds for every descriptor set but addmm's with
\* t present, whose bindings are output 0, m1 1, m2 2, constant block 3, t 4
C2_BindingOrder ==
  \A j \in Idxs(trace, "createDescriptorSetLayoutSinglePool") :
    IF IsAddmmWithT
    THEN LET b == BindsOf(trace, j)
         IN /\ Len(b) = 5
            /\ \A i \in 0..4 : Cardinality(BoundAt(b, i)) = 1
            /\ [i \in 1..5 |-> (CHOOSE e \in BoundAt(b, i - 1) : TRUE).res]
                 = <<"output", "m1", "m2", "constBuffer", "t">>
    ELSE BindingOrderContract(BindsOf(trace, j))

C2_Witness ==
  /\ IsAddmmWithT
  /\ Dispatches(trace) # {}

(***************************************************************************)
(* C3.  On every conv2d entry point a group count with 1 < G < C ends the  *)
(* call in an assertion failure with nothing dispatched; the depthwise     *)
(* shader is dispatched only when G = C, the no-group shader only when     *)
(* G = 1.                                                                  *)
(***************************************************************************)
Conv2dEntryPoints ==
  {"conv2d_weights", "conv2d_prepacked_bias", "conv2d_prepacked_tensorbias",
   "conv2d_image_bias", "conv2d_image_buffer"}

DispatchesOf(t, name) == {k \in Dispatches(t) : t[k].shader = name}

C3_GroupCount ==
  call.op \in Conv2dEntryPoints =>
    /\ (1 < call.params.G /\ call.params.G < call.params.C)
         => Failed(trace) /\ NoDispatch(trace)
    /\ DispatchesOf(trace, "conv2d_dw_clamp") # {} => call.params.G = call.params.C
    /\ DispatchesOf(trace, "conv2d_nogroup_clamp") # {} => call.params.G = 1

C3_Witness ==
  /\ call.op = "conv2d_prepacked_bias"
  /\ 1 < call.params.G /\ call.params.G < call.params.C
  /\ call.osizes[3] = call.params.OH /\ call.osizes[4] = call.params.OW
  /\ Failed(trace)

(***************************************************************************)
(* C4.  The prepacked-weight image has a fixed size for given OC, C, KH,   *)
(* KW: conv2d_prepack_weights_image allocates it, and                      *)
(* conv2d_prepack_weights_to_image accepts an image of that size and       *)
(* fails, before recording any dispatch, on any other.                     *)
(***************************************************************************)
\* the contract for an image size `want`
PrepackSizeContract(want) ==
  /\ call.op = "conv2d_prepack_weights_to_image" =>
       IF call.sizes = want
       THEN ~Failed(trace) /\ DispatchesOf(trace, "KO4C4HW_to_image") # {}
       ELSE Failed(trace) /\ NoDispatch(trace)
  /\ call.op = "conv2d_prepack_weights_image" =>
       /\ \A k \in Idxs(trace, "VImage") : trace[k].args = want
       /\ Idxs(trace, "VImage") # {}

\* the claim as stated: the size is (ceil(C/4), ceil(OC/4), KH*KW)
C4_ImageSizeCeilC ==
  call.op \in {"conv2d_prepack_weights_to_image", "conv2d_prepack_weights_image"} =>
    PrepackSizeContract(<<(call.C + 3) \div 4, (call.OC + 3) \div 4, call.KH * call.KW>>)

\* C4 as amended: the size is (4*ceil(C/4), ceil(OC/4), KH*KW)
C4_ImageSize ==
  call.op \in {"conv2d_prepack_weights_to_image", "conv2d_prepack_weights_image"} =>
    PrepackSizeContract(<<4 * ((call.C + 3) \div 4), (call.OC + 3) \div 4,
                          call.KH * call.KW>>)

C4_Witness ==
  /\ call.op = "conv2d_prepack_weights_to_image"
  /\ call.C = 5 /\ call.OC = 5
  /\ call.sizes = <<8, 2, call.KH * call.KW>>
  /\ DispatchesOf(trace, "KO4C4HW_to_image") # {}

(***************************************************************************)
(* C10.  add(output, input0, input1, alpha) records a dispatch exactly     *)
(* when the three operands have at most 4 dimensions and equal shapes      *)
(* after left-padding with 1s to 4 dimensions; otherwise it fails before   *)
(* any descriptor set is created.  No size-1 dimension is broadcast.       *)
(***************************************************************************)
LeftPad1(s) == [i \in 1..(4 - Len(s)) |-> 1] \o s

AddOperandsMatch ==
  /\ Len(call.os) <= 4 /\ Len(call.i0s) <= 4 /\ Len(call.i1s) <= 4
  /\ LeftPad1(call.os) = LeftPad1(call.i0s)
  /\ LeftPad1(call.os) = LeftPad1(call.i1s)

C10_AddExactShapes ==
  call.op = "add" =>
    IF AddOperandsMatch
    THEN ~Failed(trace) /\ Cardinality(DispatchesOf(trace, "add")) = 1
    ELSE /\ Failed(trace)
         /\ NoDispatch(trace)
         /\ Idxs(trace, "createDescriptorSetLayoutSinglePool") = {}

\* operands of different ranks that match after padding
C10_Witness ==
  /\ call.op = "add"
  /\ Len(call.os) = 1 /\ Len(call.i0s) = 4 /\ Len(call.i1s) = 2
  /\ call.os = <<2>>
  /\ Dispatches(trace) # {}

\* a size-1 dimension against a larger one is rejected
C10_WitnessRejected ==
  /\ call.op = "add"
  /\ call.os = <<2>> /\ call.i0s = <<2>> /\ call.i1s = <<1>>
  /\ Failed(trace)

(***************************************************************************)
(* C5.  The repacked buffer has 16*ceil(OC/4)*ceil(C/4)*KH*KW floats;      *)
(* w[oc][ic][ky][kx] is in the 16-float block with linear index            *)
(* ((oc/4)*ceil(C/4) + ic/4)*KH*KW + ky*KW + kx at lane 4*(ic%4) + oc%4;   *)
(* every write is inside the buffer; every other float is zero.            *)
(***************************************************************************)
IsRepack == call.op = "kernelNCHW_OCHW_repack_O4C4HWi4o4"

CeilDiv4(x) == (x + 3) \div 4

\* where the layout puts w[oc][ic][ky][kx]
LayoutPos(OC, C, KH, KW, oc, ic, ky, kx) ==
  16 * (((oc \div 4) * CeilDiv4(C) + ic \div 4) * KH * KW + ky * KW + kx)
    + 4 * (ic % 4) + (oc % 4)

\* w[oc][ic][ky][kx] of the dense row-major array (a sequence from 1)
Dense(w, C, KH, KW, oc, ic, ky, kx) == w[((oc * C + ic) * KH + ky) * KW + kx + 1]

IsReshapeCopy == call.op = "reshape_copy"

\* the input of the call as it was before the call
ReshapeInput == call.before[Len(call.before)]

\* the exact product of the shape asked for is the element count of the input
ShapeFits == ExactProduct(call.shape) = ZeroExtend(ReshapeInput.numel, 16)

C7_ReshapeExactProduct ==
  IsReshapeCopy =>
    /\ ~Failed(trace) => ShapeFits
    /\ ~ShapeFits =>
         /\ Failed(trace)
         /\ \A i \in 1..Len(trace) :
              trace[i].ev \notin {"sync_image_to_buffer", "VulkanTensor",
                                  "allocate_storage", "copy_buffer_to_buffer"}
         /\ heap = call.before

\* a shape of 2^32 + 6 elements asked of a tensor of 6, and a tensor returned
C7_Accepted ==
  /\ IsReshapeCopy
  /\ call.shape = <<Two31Plus3, I64(2)>>
  /\ ReshapeInput.numel = I64(6)
  /\ ~Failed(trace)

(***************************************************************************)
(* C8.  For every tensor x and shape s with product(s) = x.numel(),        *)
(* reshape_copy(reshape_copy(x, s), x.sizes()) has the shape of x and the  *)
(* elements of x bit for bit; each reshape_copy copies the whole source    *)
(* buffer into a newly allocated destination and leaves the elements of    *)
(* its source unchanged.                                                   *)
(***************************************************************************)
\* the tensor of the heap the call read, and the tensor it returned
ReshapeSource == heap[Len(call.before)]
ReshapeResult == heap[Len(call.before) + 1]

C8_ReshapeRoundTrip ==
  /\ IsReshapeCopy /\ ShapeFits =>
       /\ ~Failed(trace)
       /\ Len(heap) = Len(call.before) + 1
       /\ ReshapeResult.sizes = call.shape
       /\ Elements(ReshapeResult) = Elements(ReshapeInput)
       /\ Elements(ReshapeSource) = Elements(ReshapeInput)
       /\ ReshapeSource.sizes = ReshapeInput.sizes
       /\ \E i \in 1..Len(trace) : \E j \in (i + 1)..Len(trace) :
            /\ trace[i].ev = "allocate_storage" /\ trace[i].res = "output"
            /\ trace[j].ev = "copy_buffer_to_buffer"
            /\ trace[j].args = <<Len(ReshapeSource.buf), 0, 0>>
  /\ IsReshapeCopy /\ call.back
       /\ ExactProduct(call.before[2].sizes) = ZeroExtend(call.before[1].numel, 16) =>
       /\ ~Failed(trace)
       /\ Len(heap) = 3
       /\ heap[3].sizes = heap[1].sizes
       /\ Elements(heap[3]) = Elements(heap[1])

\* the round trip of a tensor of fewer than 2^31 elements that is held in its
\* image, through another shape
C8_RoundTripDone ==
  /\ IsReshapeCopy /\ call.back
  /\ Len(heap) = 3
  /\ heap[1].sizes = <<I64(2), I64(3)>> /\ heap[1].auth = "both"
  /\ heap[2].sizes = <<I64(3), I64(2)>>
  /\ heap[3].sizes = heap[1].sizes
  /\ Elements(heap[3]) = DataBytes(0, 6)

(***************************************************************************)
(* C9.  After cat(output, inputs, dim), with s_i = 4 * numel(t_i), the     *)
(* bytes [s_0+...+s_(i-1), s_0+...+s_i) of the output buffer are the       *)
(* buffer data of t_i; the copies are issued in input order at strictly    *)
(* increasing destination offsets, each input is resynchronized to its     *)
(* buffer form before its copy, and no output byte at or beyond            *)
(* s_0+...+s_(n-1) is written.                                             *)
(***************************************************************************)
IsCat == call.op = "cat"

\* the inputs before the call, and their byte sizes
CatBefore == Tail(call.before)
CatSize(i) == 4 * NatOf(CatBefore[i].numel)
CatStart(i) == SeqSum([k \in 1..(i - 1) |-> CatSize(k)])

\* the copies of the trace, in the order issued
CatCopies == SelectSeq(trace, LAMBDA e : e.ev = "copy_buffer_to_buffer")

\* everything in C9 but the order of the destination offsets
CatContract ==
  LET n == Len(CatBefore)
      out == heap[1].buf
  IN /\ ~Failed(trace)
     /\ \A i \in 1..n :
          /\ SubSeq(out, CatStart(i) + 1, CatStart(i) + CatSize(i)) = Elements(CatBefore[i])
          /\ Elements(heap[i + 1]) = Elements(CatBefore[i])
     /\ Len(CatCopies) = n
     /\ \A i \in 1..n :
          /\ CatCopies[i].idx = i - 1
          /\ CatCopies[i].args = <<CatSize(i), 0, CatStart(i)>>
     /\ \A j \in 1..Len(trace) :
          trace[j].ev = "copy_buffer_to_buffer" =>
            \E k \in 1..(j - 1) :
              /\ trace[k].ev = "sync_image_to_buffer"
              /\ trace[k].idx = trace[j].idx
     /\ Len(out) = Len(call.before[1].buf)
     /\ \A b \in (CatStart(n + 1) + 1)..Len(out) : out[b] = call.before[1].buf[b]

C9_CatStrictOffsets ==
  IsCat =>
    /\ CatContract
    /\ \A i \in 1..Len(CatCopies) : \A j \in 1..Len(CatCopies) :
         i < j => CatCopies[i].args[3] < CatCopies[j].args[3]

\* C9 as amended: the destination offsets never decrease, and the offset after
\* an input that is not empty is larger than that input's
C9_CatOffsets ==
  IsCat =>
    /\ CatContract
    /\ \A i \in 1..Len(CatCopies) : \A j \in 1..Len(CatCopies) :
         i < j =>
           /\ CatCopies[i].args[3] <= CatCopies[j].args[3]
           /\ CatSize(i) > 0 => CatCopies[i].args[3] < CatCopies[j].args[3]

\* two inputs that are not empty, the first held in its image, and an output
\* with room to spare
C9_Witness ==
  /\ IsCat
  /\ Len(heap) = 3
  /\ call.before[2].auth = "image" /\ CatSize(1) = 8 /\ CatSize(2) = 4
  /\ Len(heap[1].buf) = 16
  /\ SubSeq(heap[1].buf, 1, 12) = DataBytes(10, 2) \o DataBytes(20, 1)

(***************************************************************************)
(* C11.  Every elementwise entry point (add of two tensors, add of a       *)
(* scalar, mul by a scalar, clamp) called with a tensor of more than 4     *)
(* dimensions ends in an assertion failure and records no dispatch.        *)
(***************************************************************************)
\* the numbers of dimensions of the tensors an elementwise call reads sizes of
ElementwiseRanks ==
  IF call.op = "add" THEN {Len(call.os), Len(call.i0s), Len(call.i1s)}
  ELSE IF call.op \in {"add_scalar", "mul", "clamp"} THEN {Len(call.sizes)}
  ELSE {}

C11_RankAbove4Rejected ==
  (\E r \in ElementwiseRanks : r > MaxAddDim) => Failed(trace) /\ NoDispatch(trace)

\* add of two tensors does reject a tensor of 5 dimensions
C11_AddRejects ==
  /\ call.op = "add"
  /\ Len(call.i1s) = 5 /\ Len(call.os) = 4 /\ Len(call.i0s) = 4
  /\ Failed(trace) /\ NoDispatch(trace)

(***************************************************************************)
(* C12.  Every entry point called with an output tensor whose shape is not *)
(* the operator's output shape (conv2d: [N, OC, OH, OW]; addmm: [M, N];    *)
(* mean, pooling, upsample: the output extents passed) ends in an          *)
(* assertion failure and records no dispatch.                              *)
(***************************************************************************)
ConvEntryPoints ==
  Conv2dEntryPoints
    \cup {"conv2d_depthwise_buffer", "conv2d_depthwise_tensor", "conv2d_depthwise_weights"}

\* the calls whose output shape the arguments determine
HasOutputShape ==
  \/ call.op \in ConvEntryPoints
  \/ call.op \in {"upsample_nearest2d", "adaptive_avg_pool2d", "max_pool2d"}
  \/ call.op = "addmm" /\ Len(call.m1Sizes) = 2 /\ Len(call.m2Sizes) = 2
  \/ call.op = "mean" /\ Len(call.isizes) = 4

\* the shapes the output may have: that of the result (for mean, with the
\* two reduced dimensions dropped or kept as 1)
OutputShapes ==
  IF call.op \in ConvEntryPoints
  THEN {<<1, call.params.OC, call.params.OH, call.params.OW>>}
  ELSE IF call.op \in {"upsample_nearest2d", "adaptive_avg_pool2d"}
  THEN {<<call.N, call.C, call.OH, call.OW>>}
  ELSE IF call.op = "max_pool2d" THEN {<<call.n, call.c, call.oH, call.oW>>}
  ELSE IF call.op = "addmm" THEN {<<call.m1Sizes[1], call.m2Sizes[2]>>}
  ELSE {<<call.isizes[1], call.isizes[2]>>, <<call.isizes[1], call.isizes[2], 1, 1>>}

C12_OutputShapeChecked ==
  (HasOutputShape /\ call.osizes \notin OutputShapes)
    => Failed(trace) /\ NoDispatch(trace)

\* conv2d does reject an output of another height
C12_ConvRejects ==
  /\ call.op = "conv2d_image_buffer"
  /\ call.params.G = 1
  /\ call.osizes[2] = call.params.OC
  /\ call.osizes[3] # call.params.OH /\ call.osizes[4] = call.params.OW
  /\ Failed(trace) /\ NoDispatch(trace)

(***************************************************************************)
(* C13.  Every descriptor pool and descriptor-set layout created by a call *)
(* is destroyed exactly once before the call returns, on every exit path   *)
(* (return, assertion failure, failure of submit-and-wait); after any      *)
(* sequence of calls none created by a finished call is live; none is      *)
(* destroyed before the work submitted with it has completed.              *)
(***************************************************************************)
Created(t) == Idxs(t, "createDescriptorSetLayoutSinglePool")

\* the last position of the part of t that uses the objects created at j
LastUseOf(t, j) ==
  LET later == {i \in Created(t) : i > j}
  IN IF later = {} THEN Len(t) ELSE (CHOOSE i \in later : \A m \in later : i <= m) - 1

\* the positions after j, up to its last use, of events named e
EventsOf(t, j, e) == {k \in Idxs(t, e) : j < k /\ k <= LastUseOf(t, j)}

\* the objects created at j are destroyed once each, after the dispatch
\* recorded with them has been submitted and waited for
DestroyedOnce(t, j) ==
  /\ Cardinality(EventsOf(t, j, "vkDestroyDescriptorPool")) = 1
  /\ Cardinality(EventsOf(t, j, "vkDestroyDescriptorSetLayout")) = 1
  /\ \A d \in EventsOf(t, j, "vkDestroyDescriptorPool")
              \cup EventsOf(t, j, "vkDestroyDescriptorSetLayout") :
       /\ \A k \in EventsOf(t, j, "dispatchCommandBuffer") : k < d
       /\ \A k \in EventsOf(t, j, "submitAndWaitCommandBuffer") : k < d
       /\ EventsOf(t, j, "dispatchCommandBuffer") # {}
            => EventsOf(t, j, "submitAndWaitCommandBuffer") # {}

C13_DescriptorObjectsReleased ==
  /\ ~Idle => \A j \in Created(trace) : DestroyedOnce(trace, j)
  /\ Idle => heap = <<>>

\* a call that returns, or ends in an assertion failure after a dispatch of
\* its own, has destroyed what it created
C13_ReleasedOnReturn ==
  /\ call.op = "conv2d_weights"
  /\ Failed(trace)
  /\ Cardinality(Created(trace)) = 1
  /\ \A j \in Created(trace) : DestroyedOnce(trace, j)

(***************************************************************************)
(* C14.  Every dispatching call submits one command buffer per dispatch    *)
(* and returns only after the device has signalled its completion: when a  *)
(* call returns no work it submitted is in flight, so the dispatch of the  *)
(* next call is submitted after the dispatches of this one (the weight     *)
(* repacking dispatch inside an inline conv2d included) have completed.    *)
(***************************************************************************)
\* the submit-and-wait calls made on the command buffer of the dispatch at d
SubmitsOf(t, d) ==
  LET later == {i \in Idxs(t, "createCommandBuffer") : i > d}
      hi == IF later = {} THEN Len(t) ELSE (CHOOSE i \in later : \A m \in later : i <= m) - 1
  IN {k \in Idxs(t, "submitAndWaitCommandBuffer") : d < k /\ k <= hi}

\* the dispatches of t whose completion has not been waited for: none
\* submitted and waited for, or the wait ended in a device failure
InFlight(t) ==
  {d \in Dispatches(t) :
     \/ SubmitsOf(t, d) = {}
     \/ \E k \in SubmitsOf(t, d) : k < Len(t) /\ t[k + 1].ev = "device failure"}

\* one command buffer per dispatch, submitted once, after the dispatch and
\* before the next command buffer is created
OneSubmitPerDispatch(t) ==
  /\ \A d \in Dispatches(t) : Cardinality(SubmitsOf(t, d)) <= 1
  /\ \A c \in Idxs(t, "createCommandBuffer") :
       Cardinality({d \in Dispatches(t) :
                      c < d /\ \A i \in Idxs(t, "createCommandBuffer") : ~(c < i /\ i < d)}) <= 1
  /\ \A k \in Idxs(t, "submitAndWaitCommandBuffer") : \E d \in Dispatches(t) : k \in SubmitsOf(t, d)

C14_CallsDrain ==
  /\ [](~Idle => /\ OneSubmitPerDispatch(trace)
                 /\ ~Aborted(trace) => InFlight(trace) = {})
  /\ [][(~Idle /\ Idle' /\ ~Aborted(trace)) => InFlight(trace) = {}]_vars
  /\ [][(~Idle' /\ call' # call) => (Idle /\ InFlight(trace) = {})]_vars

\* an inline conv2d that has returned: two dispatches, the repacking one first,
\* each waited for
C14_Witness ==
  /\ call.op = "conv2d_weights"
  /\ ~Failed(trace) /\ ~Aborted(trace)
  /\ Cardinality(Dispatches(trace)) = 2
  /\ Cardinality(Idxs(trace, "submitAndWaitCommandBuffer")) = 2
  /\ InFlight(trace) = {}

(***************************************************************************)
(* C15.  For G = 1 and the same weights, bias, input, parameters and clamp *)
(* bounds, the inline conv2d (float-pointer weights) records the same      *)
(* convolution dispatch (shader, work-group shape, grid, bindings,         *)
(* constant block, kernel image contents and size) as                      *)
(* conv2d_prepack_weights followed by conv2d with the prepacked tensor.    *)
(***************************************************************************)
\* the convolution dispatch of t with what it is given: the events from the
\* making of the bias buffer to the dispatch; <<>> if t has none
ConvDispatchOf(t) ==
  LET D == DispatchesOf(t, "conv2d_nogroup_clamp")
  IN IF D = {} THEN <<>>
     ELSE LET d == SetMax(D) IN SubSeq(t, LastBefore(t, "VBuffer", d), d)

\* what makes the kernel image: its size, the repacking of the weights on the
\* host and the dispatch that writes the image from the repacked buffer
KernelImageOf(t) ==
  SelectSeq(t, LAMBDA e :
    \/ e.ev \in {"VImage", "kernelNCHW_OCHW_repack_O4C4HWi4o4"}
    \/ e.ev = "dispatchCommandBuffer" /\ e.shader = "KO4C4HW_to_image"
    \/ e.ev = "makeUniformConstBuffer" /\ Len(e.cb) = 2)

\* the two calls of the prepacked path with the arguments of the call
PrepackedPath ==
  [prepack |-> conv2d_prepack_weights(call.params.OC, call.params.C,
                                      call.params.KH, call.params.KW),
   conv |-> conv2d_prepacked_bias(call.params, call.osizes, call.hasBias,
                                  call.align, call.hasMin, call.hasMax)]

C15_InlineAsPrepacked ==
  (call.op = "conv2d_weights" /\ call.params.G = 1 /\ ~Aborted(trace)) =>
    /\ ~Failed(PrepackedPath.prepack)
    /\ KernelImageOf(trace) = KernelImageOf(PrepackedPath.prepack)
    /\ ConvDispatchOf(trace) = ConvDispatchOf(PrepackedPath.conv)
    /\ Failed(trace) <=> Failed(PrepackedPath.conv)
    /\ Cardinality(Dispatches(trace))
         = Cardinality(Dispatches(PrepackedPath.prepack))
             + Cardinality(Dispatches(PrepackedPath.conv))

\* an inline conv2d with bias, OC # C and a kernel of more than one tap that
\* has recorded both dispatches
C15_Witness ==
  /\ call.op = "conv2d_weights" /\ call.params.G = 1 /\ ~Aborted(trace)
  /\ call.params.OC = 5 /\ call.params.C = 2 /\ call.params.KH = 2 /\ call.hasBias
  /\ Len(ConvDispatchOf(trace)) > 10
  /\ Len(KernelImageOf(trace)) = 4

(***************************************************************************)
(* C16.  The constant block of conv2d and of conv2d_depthwise holds, in    *)
(* this order: padding{x,y}, kernel{w,h}, stride{x,y}, dilation{x,y},      *)
(* input size{W, H, ceil(C/4), C}, output size{OW, OH, ceil(OC/4), OC},    *)
(* outputMin, outputMax; the bounds are those supplied, or -infinity and   *)
(* +infinity where one is absent.                                          *)
(***************************************************************************)
\* the constant blocks of the convolution dispatches of t (the block of the
\* weight repacking dispatch has 2 integers)
ConvConstBlocks(t) == {k \in Idxs(t, "makeUniformConstBuffer") : Len(t[k].cb) = 16}

\* the clamp bounds of the block
ConvBoundsAsSupplied(e) ==
  e.cbf = <<IF call.hasMin THEN "output_min" ELSE "-inf",
            IF call.hasMax THEN "output_max" ELSE "+inf">>

C16_ConvConstantBlock ==
  call.op \in ConvEntryPoints =>
    \A k \in ConvConstBlocks(trace) :
      LET p == call.params
      IN /\ trace[k].cb = <<p.PX, p.PY, p.KW, p.KH, p.SX, p.SY, p.DX, p.DY,
                            p.W, p.H, (p.C + 3) \div 4, p.C,
                            p.OW, p.OH, (p.OC + 3) \div 4, p.OC>>
         /\ ConvBoundsAsSupplied(trace[k])

\* a conv2d whose constant block has the output's extents in its fifth field
C16_OutputExtentsFirst ==
  /\ call.op = "conv2d_image_buffer"
  /\ call.params.OC = 5 /\ call.params.C = 2 /\ call.params.H = 10
  /\ \E k \in ConvConstBlocks(trace) :
       /\ SubSeq(trace[k].cb, 9, 12) = <<1, 2, 2, 5>>
       /\ SubSeq(trace[k].cb, 13, 16) = <<11, 10, 1, 2>>

(***************************************************************************)
(* C17.  For add of a scalar and mul by a scalar on an input of rank r,    *)
(* 2 <= r <= 4, the grid dispatched and the constant block are (W, H, C):  *)
(* W the last dimension size, H the one before it, C the exact product of  *)
(* the dimensions before those two (1 when r = 2).                         *)
(***************************************************************************)
IsScalarOp == call.op \in {"add_scalar", "mul"}

\* (W, H, C) of a shape of rank 2 or more
FoldedExtents(sizes) ==
  LET r == Len(sizes)
  IN <<sizes[r], sizes[r - 1], SeqProd(SubSeq(sizes, 1, r - 2))>>

C17_ScalarOpExtents ==
  (IsScalarOp /\ Len(call.sizes) \in 2..4 /\ ~Aborted(trace)) =>
    /\ Cardinality(Dispatches(trace)) = 1
    /\ \A d \in Dispatches(trace) : trace[d].grid = FoldedExtents(call.sizes)
    /\ \A k \in Idxs(trace, "makeUniformConstBuffer") :
         trace[k].cb = FoldedExtents(call.sizes) \o <<0>>

\* on an input of rank 4 the extents are those of the claim
C17_Rank4 ==
  /\ call.op = "mul" /\ call.sizes = <<1, 3, 2, 1>> /\ ~Aborted(trace)
  /\ \A d \in Dispatches(trace) : trace[d].grid = <<1, 2, 3>>
  /\ \A k \in Idxs(trace, "makeUniformConstBuffer") : trace[k].cb = <<1, 2, 3, 0>>


(***************************************************************************)
(* The bytes of the buffer bufferFromOptionalHostData returns.             *)
(***************************************************************************)
\* the bytes of a newly constructed VBuffer: the allocation does not
\* initialise device memory, so every pattern is a content the buffer can
\* have (all zero, all 9, alternating)
FreshPatterns == {"zero", "nine", "mixed"}
FreshBytes(pattern, n) ==
  [i \in 1..n |-> IF pattern = "zero" THEN 0
                  ELSE IF pattern = "nine" THEN 9
                  ELSE IF i % 2 = 0 THEN 9 ELSE 0]

\* the n bytes behind the data pointer: byte i (from 1) of pattern 1 is
\* i % 5 + 1, of pattern 2 is i % 3, which has zeros
HostBytes(pattern, n) == [i \in 1..n |-> IF pattern = 1 THEN (i % 5) + 1 ELSE i % 3]

\* VBuffer::copy_from_host_to_device(data, size)
copy_from_host_to_device(buffer, data, size) ==
  [i \in 1..Len(buffer) |-> IF i <= size THEN data[i] ELSE buffer[i]]

\* VBuffer::set_zeros()
set_zeros(buffer) == [i \in 1..Len(buffer) |-> 0]

\* the VBuffer a completed bufferFromOptionalHostData returns, from the calls
\* it made on it
ReturnedBuffer(t, fresh, data) ==
  LET buffer == FreshBytes(fresh, t[1].args[1])
  IN [kind |-> "VBuffer",
      data |-> IF t[2].ev = "copy_from_host_to_device"
               THEN copy_from_host_to_device(buffer, data, t[2].args[1])
               ELSE set_zeros(buffer)]

\* dataSize and bufferSize in bytes; conv2d passes 4 * OC and 4 * ALIGN_UP4(OC)
ByteSizes == 0..(4 * ALIGN_UP4(MaxChan))

CallBufferFromOptionalHostData ==
  /\ Idle
  /\ \E hasData \in BOOLEAN, dataSize \in ByteSizes, bufferSize \in ByteSizes,
        align \in Alignments, fresh \in FreshPatterns, pattern \in WeightPatterns :
       LET data == IF hasData THEN HostBytes(pattern, dataSize) ELSE <<>>
           t == bufferFromOptionalHostData(hasData, dataSize, bufferSize, align)
       IN /\ call' = [op |-> "bufferFromOptionalHostData", hasData |-> hasData,
                      data |-> data, dataSize |-> dataSize,
                      bufferSize |-> bufferSize, align |-> align]
          /\ trace' = t
          /\ heap' = IF Failed(t) THEN <<>> ELSE <<ReturnedBuffer(t, fresh, data)>>

\* the buffer goes out of scope at the caller
ReturnBuffer ==
  /\ ~Idle
  /\ call' = [op |-> "none"]
  /\ trace' = <<>>
  /\ heap' = <<>>

NextBuffer == CallBufferFromOptionalHostData \/ ReturnBuffer

SpecBuffer == Init /\ [][NextBuffer]_vars

\* C18: bufferFromOptionalHostData fails with an assertion and creates no
\* buffer when dataSize > bufferSize; otherwise the buffer it returns has
\* bufferSize rounded up to minStorageBufferOffsetAlignment bytes, all zero
\* when data is absent, and when data is present the host data in the first
\* dataSize bytes and zero in every byte after them
C18_DataThenZeros ==
  call.op = "bufferFromOptionalHostData" =>
    IF call.dataSize > call.bufferSize
    THEN Failed(trace) /\ heap = <<>>
    ELSE /\ ~Failed(trace)
         /\ Len(heap) = 1
         /\ Len(heap[1].data) = ROUND_UP(call.bufferSize, call.align)
         /\ \A i \in 1..Len(heap[1].data) :
              heap[1].data[i] = IF call.hasData /\ i <= call.dataSize
                                THEN call.data[i] ELSE 0

\* the bias buffer of a convolution with OC = 5: the five floats of the bias,
\* and a byte that is not zero in the lanes after them
C18_BiasTailNotZero ==
  /\ call.op = "bufferFromOptionalHostData"
  /\ call.hasData /\ call.dataSize = 4 * 5 /\ call.bufferSize = 4 * ALIGN_UP4(5)
  /\ Len(heap) = 1
  /\ \A i \in 1..call.dataSize : heap[1].data[i] = call.data[i]
  /\ \E i \in (call.dataSize + 1)..call.bufferSize : heap[1].data[i] # 0

====
